---- MODULE Spec2Model ----
(***************************************************************************)
(* getrandom, wasm32 back-end over wasm-bindgen (src/wasm32_bindgen.rs).   *)
(*                                                                         *)
(* getrandom_inner(dest) looks up the thread-local cell RNG_SOURCE, has    *)
(* use_init fill it by getrandom_init when it is empty, and then fills     *)
(* dest through the cached source: one random_fill_sync call on the whole  *)
(* buffer for Node, one get_random_values call per 65536-byte chunk for    *)
(* Browser.  getrandom_init probes the host's global object.               *)
(*                                                                         *)
(* Threads run getrandom_inner concurrently, each on its own cell.  The    *)
(* host (the JavaScript global object) is the environment: its three       *)
(* properties may change between any two steps.  usize is 32 bits wide     *)
(* (the assert_eq! of line 32); every length used is far below 2^32.       *)
(*                                                                         *)
(* use_init lives in super::utils; it is modelled from its description:    *)
(* it runs init iff the cell is empty, stores what init returned on        *)
(* success, returns init's error and leaves the cell empty on failure,     *)
(* and then runs the closure on the stored source.                         *)
(***************************************************************************)
EXTENDS Integers, Sequences, FiniteSets, TLC

\* ---------------------------------------------------------------- bounds
NThreads == 2
MaxCalls == 3
MaxChunks == 2

\* ------------------------------------------------------ program constants
\* dest.chunks_mut(65536)
ChunkSize == 65536

Threads == 1..NThreads

\* Option<RngSource>: None, or Some(Node(..)) / Some(Browser(..))
None == "None"
RngSource == {"Node", "Browser"}

\* super::UNAVAILABLE_ERROR, the one Error value this file returns
UNAVAILABLE_ERROR == "UNAVAILABLE_ERROR"

\* The host facts getrandom_init reads off the global object: whether
\* this.self, this.crypto and crypto.getRandomValues are defined.
Hosts == [self : BOOLEAN, crypto : BOOLEAN, getRandomValues : BOOLEAN]

\* Buffer lengths of the chunking specification SpecFill: 0, 1, the lengths
\* around every chunk boundary up to MaxChunks chunks, and 200000.
Lens == {n \in UNION {{k * ChunkSize - 1, k * ChunkSize, k * ChunkSize + 1} :
                        k \in 0..MaxChunks} : n >= 0}
           \cup {1, 200000}

\* Buffer lengths of the threaded specification Spec: empty, one byte, and
\* one byte more than a chunk.
SomeLens == {0, 1, ChunkSize + 1}

VARIABLES
    host,        \* the global object's three facts
    hostChanged, \* history: the host changed since the start
    cache,       \* cache[t]: thread t's RNG_SOURCE cell
    pc,          \* pc[t]: "idle", "init" (in getrandom_init), "use" (in the closure)
    len,         \* len[t]: dest.len() of thread t's current call
    log,         \* log[t]: the primitive calls of thread t's call in progress
                 \*         (kept when an exception cut the call short)
    probes,      \* probes[t]: the host reads getrandom_init made in thread t's
                 \*         call in progress (kept like log)
    result,      \* result[t]: what thread t's last call returned
    detects,     \* history: detects[t] counts getrandom_init invocations
    first,       \* history: outcome of thread t's first detection
    ncalls       \* history: getrandom_inner calls started, all threads

vars == <<host, hostChanged, cache, pc, len, log, probes, result, detects, first,
          ncalls>>

\* ------------------------------------------------------- getrandom_init
InitOk(src) == [ok |-> TRUE, source |-> src, err |-> "-"]
InitErr(e) == [ok |-> FALSE, source |-> None, err |-> e]

\* Variant: the getRandomValues test is missing.
getrandom_init_NoFnTest(h) ==
    IF ~h.self THEN InitOk("Node")
    ELSE IF ~h.crypto THEN InitErr(UNAVAILABLE_ERROR)
    ELSE InitOk("Browser")

\* Variant: crypto is tested before self.
getrandom_init_CryptoFirst(h) ==
    IF ~h.crypto THEN InitErr(UNAVAILABLE_ERROR)
    ELSE IF ~h.self THEN InitOk("Node")
    ELSE IF ~h.getRandomValues THEN InitErr(UNAVAILABLE_ERROR)
    ELSE InitOk("Browser")

\* Variant: the two causes return different errors.
getrandom_init_TwoErrors(h) ==
    IF ~h.self THEN InitOk("Node")
    ELSE IF ~h.crypto THEN InitErr(UNAVAILABLE_ERROR)
    ELSE IF ~h.getRandomValues THEN InitErr("UNKNOWN_ERROR")
    ELSE InitOk("Browser")

\* fn getrandom_init() -> Result<RngSource, Error>
getrandom_init(h) ==
    LET is_browser == h.self
    IN  IF ~is_browser THEN InitOk("Node")
        ELSE IF ~h.crypto THEN InitErr(UNAVAILABLE_ERROR)
        ELSE IF ~h.getRandomValues THEN InitErr(UNAVAILABLE_ERROR)
        ELSE InitOk("Browser")

\* Variant: when the browser has no crypto, require("crypto") is tried.
getrandom_init_reads_Fallback(h) ==
    IF ~h.self THEN <<"self", "require">>
    ELSE IF ~h.crypto THEN <<"self", "crypto", "require">>
    ELSE <<"self", "crypto", "getRandomValues">>

\* The host reads of getrandom_init, in the order it makes them:
\* this.self_(), then node_require("crypto") and return, or this.crypto()
\* and, unless that is undefined, crypto.get_random_values_fn().
getrandom_init_reads(h) ==
    LET is_browser == h.self
    IN  IF ~is_browser THEN <<"self", "require">>
        ELSE IF ~h.crypto THEN <<"self", "crypto">>
        ELSE <<"self", "crypto", "getRandomValues">>

\* ------------------------------------------------------------- use_init
\* use_init(f, init, use_f): init runs iff the cell is empty.
use_init_runs_init(cell) == cell = None

\* The cell after init returned r: a source on success, still empty on failure.
use_init_cell(cell, r) == IF r.ok THEN r.source ELSE cell

\* -------------------------------------------------- RNG_SOURCE.with(|f| ..)
\* Variant: one cell read by all threads.
RNG_SOURCE_with_Shared(c, t) == c[1]

\* thread_local!: each thread gets its own cell.
RNG_SOURCE_with(c, t) == c[t]

\* Variant: one cell written by all threads.
RNG_SOURCE_set_Shared(c, t, v) == [u \in DOMAIN c |-> v]

\* A write through the thread's RefCell changes that thread's cell only.
RNG_SOURCE_set(c, t, v) == [c EXCEPT ![t] = v]

\* ------------------------------------------------------ the use closure
\* Variant: the two arms are swapped.
Primitive_Swapped(source) ==
    IF source = "Node" THEN "get_random_values" ELSE "random_fill_sync"

\* match *source: the primitive each variant calls
Primitive(source) ==
    IF source = "Node" THEN "random_fill_sync" ELSE "get_random_values"

\* Variant: the next chunk starts on the last byte of the one before.
Filled_Overlap(l) == IF l = <<>> THEN 0 ELSE l[Len(l)].off + l[Len(l)].len - 1

\* Bytes handed to primitives so far in this call.
Filled(l) == IF l = <<>> THEN 0 ELSE l[Len(l)].off + l[Len(l)].len

\* Variant: the limit is taken as 65535.
ChunkLen_OffByOne(remaining) ==
    IF remaining < ChunkSize - 1 THEN remaining ELSE ChunkSize - 1

\* dest.chunks_mut(65536): the next chunk of what remains is 65536 bytes,
\* or all of it when less remains.
ChunkLen(remaining) == IF remaining < ChunkSize THEN remaining ELSE ChunkSize

\* ---------------------------------------------------------------- Init
Init ==
    /\ host \in Hosts
    /\ hostChanged = FALSE
    /\ cache = [t \in Threads |-> None]
    /\ pc = [t \in Threads |-> "idle"]
    /\ len = [t \in Threads |-> 0]
    /\ log = [t \in Threads |-> <<>>]
    /\ probes = [t \in Threads |-> <<>>]
    /\ result = [t \in Threads |-> "none"]
    /\ detects = [t \in Threads |-> 0]
    /\ first = [t \in Threads |-> "none"]
    /\ ncalls = 0

\* -------------------------------------------------------------- actions
\* The environment redefines or deletes self, crypto or getRandomValues.
HostChange(h) ==
    /\ h # host
    /\ host' = h
    /\ hostChanged' = TRUE
    /\ UNCHANGED <<cache, pc, len, log, probes, result, detects, first, ncalls>>

\* Variant: an empty dest returns Ok(()) at once.
Call_SkipEmpty(t, n) ==
    /\ pc[t] = "idle"
    /\ ncalls < MaxCalls
    /\ ncalls' = ncalls + 1
    /\ len' = [len EXCEPT ![t] = n]
    /\ log' = [log EXCEPT ![t] = <<>>]
    /\ probes' = [probes EXCEPT ![t] = <<>>]
    /\ result' = [result EXCEPT ![t] = IF n = 0 THEN "Ok" ELSE "none"]
    /\ pc' = [pc EXCEPT ![t] =
                IF n = 0 THEN "idle"
                ELSE IF use_init_runs_init(RNG_SOURCE_with(cache, t))
                     THEN "init" ELSE "use"]
    /\ UNCHANGED <<host, hostChanged, cache, detects, first>>

\* getrandom_inner(dest) is entered with dest.len() = n; use_init looks at
\* the thread's cell.
Call(t, n) ==
    /\ pc[t] = "idle"
    /\ ncalls < MaxCalls
    /\ ncalls' = ncalls + 1
    /\ len' = [len EXCEPT ![t] = n]
    /\ log' = [log EXCEPT ![t] = <<>>]
    /\ probes' = [probes EXCEPT ![t] = <<>>]
    /\ result' = [result EXCEPT ![t] = "none"]
    /\ pc' = [pc EXCEPT ![t] =
                IF use_init_runs_init(RNG_SOURCE_with(cache, t)) THEN "init" ELSE "use"]
    /\ UNCHANGED <<host, hostChanged, cache, detects, first>>

\* Variant: a failed detection is remembered in the cell.
Detect_CachesFailure(t) ==
    /\ pc[t] = "init"
    /\ LET r == getrandom_init(host)
       IN  /\ cache' = RNG_SOURCE_set(cache, t,
                          IF r.ok THEN r.source ELSE "Failed")
           /\ pc' = [pc EXCEPT ![t] = IF r.ok THEN "use" ELSE "idle"]
           /\ result' = [result EXCEPT ![t] = IF r.ok THEN "none" ELSE r.err]
           /\ first' = [first EXCEPT ![t] =
                           IF first[t] = "none"
                           THEN (IF r.ok THEN "ok" ELSE "fail") ELSE first[t]]
    /\ probes' = [probes EXCEPT ![t] = getrandom_init_reads(host)]
    /\ detects' = [detects EXCEPT ![t] = detects[t] + 1]
    /\ UNCHANGED <<host, hostChanged, len, log, ncalls>>

\* Variant: a failed detection leaves the Node source in the cell.
Detect_DefaultSource(t) ==
    /\ pc[t] = "init"
    /\ LET r == getrandom_init(host)
       IN  /\ cache' = RNG_SOURCE_set(cache, t,
                          IF r.ok THEN r.source ELSE "Node")
           /\ pc' = [pc EXCEPT ![t] = IF r.ok THEN "use" ELSE "idle"]
           /\ result' = [result EXCEPT ![t] = IF r.ok THEN "none" ELSE r.err]
           /\ first' = [first EXCEPT ![t] =
                           IF first[t] = "none"
                           THEN (IF r.ok THEN "ok" ELSE "fail") ELSE first[t]]
    /\ probes' = [probes EXCEPT ![t] = getrandom_init_reads(host)]
    /\ detects' = [detects EXCEPT ![t] = detects[t] + 1]
    /\ UNCHANGED <<host, hostChanged, len, log, ncalls>>

\* getrandom_init runs; use_init stores a source, or returns the error.
Detect(t) ==
    /\ pc[t] = "init"
    /\ LET r == getrandom_init(host)
       IN  /\ cache' = RNG_SOURCE_set(cache, t,
                          use_init_cell(RNG_SOURCE_with(cache, t), r))
           /\ pc' = [pc EXCEPT ![t] = IF r.ok THEN "use" ELSE "idle"]
           /\ result' = [result EXCEPT ![t] = IF r.ok THEN "none" ELSE r.err]
           /\ first' = [first EXCEPT ![t] =
                           IF first[t] = "none"
                           THEN (IF r.ok THEN "ok" ELSE "fail") ELSE first[t]]
    /\ probes' = [probes EXCEPT ![t] = getrandom_init_reads(host)]
    /\ detects' = [detects EXCEPT ![t] = detects[t] + 1]
    /\ UNCHANGED <<host, hostChanged, len, log, ncalls>>

\* Variant: a host exception is caught and returned as the error.
CallPrimitive_Caught(t, off, n, ok) ==
    /\ log' = [log EXCEPT ![t] =
                 Append(log[t], [prim |-> Primitive(RNG_SOURCE_with(cache, t)),
                                 off |-> off, len |-> n, ok |-> ok])]
    /\ IF ok
       THEN UNCHANGED <<pc, result>>
       ELSE /\ pc' = [pc EXCEPT ![t] = "idle"]
            /\ result' = [result EXCEPT ![t] = UNAVAILABLE_ERROR]

\* One primitive call on dest[off .. off+n).  The primitives return (); a
\* host exception (ok = FALSE) leaves getrandom_inner without a Result.
CallPrimitive(t, off, n, ok) ==
    /\ log' = [log EXCEPT ![t] =
                 Append(log[t], [prim |-> Primitive(RNG_SOURCE_with(cache, t)),
                                 off |-> off, len |-> n, ok |-> ok])]
    /\ IF ok
       THEN UNCHANGED <<pc, result>>
       ELSE /\ pc' = [pc EXCEPT ![t] = "idle"]
            /\ result' = [result EXCEPT ![t] = "thrown"]

\* RngSource::Node(ref n) => n.random_fill_sync(dest)
FillNode(t) ==
    /\ pc[t] = "use"
    /\ RNG_SOURCE_with(cache, t) = "Node"
    /\ log[t] = <<>>
    /\ \E ok \in BOOLEAN : CallPrimitive(t, 0, len[t], ok)
    /\ UNCHANGED <<host, hostChanged, cache, len, probes, detects, first, ncalls>>

\* for chunk in dest.chunks_mut(65536) { n.get_random_values(chunk) }
FillChunk(t) ==
    /\ pc[t] = "use"
    /\ RNG_SOURCE_with(cache, t) = "Browser"
    /\ Filled(log[t]) < len[t]
    /\ \E ok \in BOOLEAN :
          CallPrimitive(t, Filled(log[t]), ChunkLen(len[t] - Filled(log[t])), ok)
    /\ UNCHANGED <<host, hostChanged, cache, len, probes, detects, first, ncalls>>

\* Variant: the source is taken out of the cell when the call returns.
Return_Reset(t) ==
    /\ pc[t] = "use"
    /\ \/ RNG_SOURCE_with(cache, t) = "Node" /\ log[t] # <<>>
       \/ RNG_SOURCE_with(cache, t) = "Browser" /\ Filled(log[t]) >= len[t]
    /\ pc' = [pc EXCEPT ![t] = "idle"]
    /\ result' = [result EXCEPT ![t] = "Ok"]
    /\ len' = [len EXCEPT ![t] = 0]
    /\ log' = [log EXCEPT ![t] = <<>>]
    /\ probes' = [probes EXCEPT ![t] = <<>>]
    /\ cache' = RNG_SOURCE_set(cache, t, None)
    /\ UNCHANGED <<host, hostChanged, detects, first, ncalls>>

\* Ok(()) once the match arm is through.
Return(t) ==
    /\ pc[t] = "use"
    /\ \/ RNG_SOURCE_with(cache, t) = "Node" /\ log[t] # <<>>
       \/ RNG_SOURCE_with(cache, t) = "Browser" /\ Filled(log[t]) >= len[t]
    /\ pc' = [pc EXCEPT ![t] = "idle"]
    /\ result' = [result EXCEPT ![t] = "Ok"]
    /\ len' = [len EXCEPT ![t] = 0]
    /\ log' = [log EXCEPT ![t] = <<>>]
    /\ probes' = [probes EXCEPT ![t] = <<>>]
    /\ UNCHANGED <<host, hostChanged, cache, detects, first, ncalls>>

Next ==
    \/ \E h \in Hosts : HostChange(h)
    \/ \E t \in Threads, n \in SomeLens : Call(t, n)
    \/ \E t \in Threads : Detect(t)
    \/ \E t \in Threads : FillNode(t)
    \/ \E t \in Threads : FillChunk(t)
    \/ \E t \in Threads : Return(t)

\* Any number of threads, each calling getrandom_inner again and again.
Spec == Init /\ [][Next]_vars

\* One thread, every length of Lens: the chunking of the Browser arm.
NextFill ==
    \/ \E h \in Hosts : HostChange(h)
    \/ \E n \in Lens : Call(1, n)
    \/ Detect(1)
    \/ FillNode(1)
    \/ FillChunk(1)
    \/ Return(1)

SpecFill == Init /\ [][NextFill]_vars

\* ================================================================ claims
\* The closure is through and Ok(()) is about to be returned.
Returning(t) ==
    /\ pc[t] = "use"
    /\ \/ cache[t] = "Node" /\ log[t] # <<>>
       \/ cache[t] = "Browser" /\ log[t] # <<>> /\
             log[t][Len(log[t])].off + log[t][Len(log[t])].len >= len[t]
       \/ cache[t] = "Browser" /\ log[t] = <<>> /\ len[t] = 0

\* Thread t never called getrandom_inner.
NeverCalled(t) == pc[t] = "idle" /\ result[t] = "none"

\* The host is browser-like without a usable crypto.getRandomValues.
Unusable(h) == h.self /\ (~h.crypto \/ ~h.getRandomValues)

\* C1: on a thread, getrandom_init is not invoked once the thread's cell
\* holds a source; a thread whose first detection succeeded has run
\* getrandom_init exactly once, however many calls it made, and every
\* call past detection works on a cached source.
C1_NoDetectionAfterSuccess ==
    /\ [][\A t \in Threads : cache[t] # None => detects'[t] = detects[t]]_vars
    /\ [](\A t \in Threads : first[t] = "ok" =>
             /\ detects[t] = 1
             /\ cache[t] # None
             /\ pc[t] # "init")

\* One thread made all MaxCalls calls on a single, successful detection.
C1_Witness ==
    \E t \in Threads :
        /\ first[t] = "ok" /\ detects[t] = 1
        /\ ncalls = MaxCalls /\ result[t] = "Ok"
        /\ \A u \in Threads \ {t} : NeverCalled(u)

C3_ChunkCount ==
    \A t \in Threads :
        (Returning(t) /\ cache[t] = "Browser") =>
            /\ Len(log[t]) = (len[t] + ChunkSize - 1) \div ChunkSize
            /\ \A i \in DOMAIN log[t] :
                  /\ log[t][i].len >= 1 /\ log[t][i].len <= ChunkSize
                  /\ i < Len(log[t]) => log[t][i].len = ChunkSize
            /\ len[t] = 0 => log[t] = <<>>
            /\ len[t] = ChunkSize =>
                  Len(log[t]) = 1 /\ log[t][1].len = ChunkSize
            /\ len[t] = ChunkSize + 1 =>
                  /\ Len(log[t]) = 2
                  /\ log[t][1].len = ChunkSize /\ log[t][2].len = 1

\* A Browser fill of 65537 bytes is through after two calls.
C3_Witness ==
    \E t \in Threads :
        /\ Returning(t) /\ cache[t] = "Browser"
        /\ len[t] = ChunkSize + 1 /\ Len(log[t]) = 2

\* Number of primitive calls of thread t's call that wrote byte b of dest.
Writes(t, b) ==
    Cardinality({i \in DOMAIN log[t] :
                   log[t][i].off <= b /\ b < log[t][i].off + log[t][i].len})

\* Bytes of dest looked at: both ends and both sides of each chunk boundary.
Probes(n) ==
    {b \in {0, 1, n - 2, n - 1} \cup
            UNION {{k * ChunkSize - 1, k * ChunkSize, k * ChunkSize + 1} :
                     k \in 1..(n \div ChunkSize)} : b >= 0 /\ b < n}

\* C4: in a Browser fill the chunks come one after the other: the first
\* starts at 0, each next one where the one before ended, none is empty
\* or passes the end of dest, no byte is written twice, and when Ok(())
\* is returned the chunks end at L and every byte was written once.
C4_Coverage ==
    \A t \in Threads :
        (pc[t] = "use" /\ cache[t] = "Browser") =>
            /\ \A i \in DOMAIN log[t] :
                  /\ log[t][i].off = (IF i = 1 THEN 0
                                      ELSE log[t][i - 1].off + log[t][i - 1].len)
                  /\ log[t][i].len > 0
                  /\ log[t][i].off + log[t][i].len <= len[t]
            /\ \A b \in Probes(len[t]) : Writes(t, b) <= 1
            /\ Returning(t) =>
                  /\ len[t] > 0 =>
                        log[t][Len(log[t])].off + log[t][Len(log[t])].len = len[t]
                  /\ \A b \in Probes(len[t]) : Writes(t, b) = 1

\* A Browser fill of three chunks is through.
C4_Witness ==
    \E t \in Threads :
        /\ Returning(t) /\ cache[t] = "Browser"
        /\ Len(log[t]) = 3 /\ len[t] = 2 * ChunkSize + 1

\* The outcome of the detection a step of thread t completes, read off the
\* step: the source put in the cell, or the error returned.
DetectionDone(t) == pc[t] = "init" /\ detects'[t] = detects[t] + 1

\* C5: what getrandom_init returns depends on the host's three facts only:
\* Node iff self is undefined, whatever crypto and getRandomValues are;
\* Browser iff self, crypto and getRandomValues are all defined; the
\* unavailable error iff self is defined and crypto or getRandomValues is not.
C5_Detection ==
    [][\A t \in Threads :
          DetectionDone(t) =>
             /\ cache'[t] = "Node" <=> ~host.self
             /\ cache'[t] = "Browser" <=>
                   (host.self /\ host.crypto /\ host.getRandomValues)
             /\ result'[t] = UNAVAILABLE_ERROR <=>
                   (host.self /\ (~host.crypto \/ ~host.getRandomValues))
             /\ result'[t] \in {"none", UNAVAILABLE_ERROR}]_vars

\* The three outcomes happened: a thread's detection failed and later found
\* Browser, another thread's found Node.
C5_Witness ==
    \E t, u \in Threads :
        /\ first[t] = "fail" /\ cache[t] = "Browser"
        /\ cache[u] = "Node"

\* C6: a call on the Node source makes one random_fill_sync call on all of
\* dest, whatever its length, and no get_random_values call; a call on
\* the Browser source makes get_random_values calls only.
C6_Dispatch ==
    \A t \in Threads :
        /\ cache[t] = "Node" =>
              /\ Len(log[t]) <= 1
              /\ \A i \in DOMAIN log[t] :
                    /\ log[t][i].prim = "random_fill_sync"
                    /\ log[t][i].off = 0 /\ log[t][i].len = len[t]
              /\ Returning(t) => Len(log[t]) = 1
        /\ cache[t] = "Browser" =>
              \A i \in DOMAIN log[t] : log[t][i].prim = "get_random_values"

\* A Node fill of more than a chunk is through after one call.
C6_Witness ==
    \E t \in Threads :
        /\ Returning(t) /\ cache[t] = "Node"
        /\ len[t] > ChunkSize /\ Len(log[t]) = 1

\* C7 as claimed: when a primitive call of a fill failed, the fill returned
\* the error value.
C7_PrimitiveFailureReturned ==
    \A t \in Threads :
        (log[t] # <<>> /\ ~log[t][Len(log[t])].ok) =>
            result[t] = UNAVAILABLE_ERROR

\* C8: on a host that is browser-like without crypto, or without
\* getRandomValues, and has not changed, every call of every thread has
\* returned the one unavailable error, no thread has a source, and each
\* call ran its own detection.
C8_UnusableHost ==
    (~hostChanged /\ Unusable(host)) =>
        \A t \in Threads :
            /\ result[t] \in {"none", UNAVAILABLE_ERROR}
            /\ pc[t] = "idle" => (result[t] = "none" <=> detects[t] = 0)
            /\ cache[t] = None /\ pc[t] # "use" /\ log[t] = <<>>

\* On an unchanged host with crypto but no getRandomValues a thread got
\* the error from a second call.
C8_Witness ==
    /\ ~hostChanged /\ host.self /\ host.crypto /\ ~host.getRandomValues
    /\ \E t \in Threads :
          detects[t] >= 2 /\ pc[t] = "idle" /\ result[t] = UNAVAILABLE_ERROR

\* C9: a cell that holds a source keeps that source: no step empties it or
\* changes the variant, whatever the host has become.
C9_ReadyIsTerminal ==
    [][\A t \in Threads : cache[t] # None => cache'[t] = cache[t]]_vars

\* A thread is filling through Node on a second call although the host has
\* become a browser with getRandomValues.
C9_Witness ==
    \E t \in Threads :
        /\ cache[t] = "Node" /\ pc[t] = "use" /\ ncalls >= 2
        /\ \A u \in Threads \ {t} : NeverCalled(u)
        /\ host.self /\ host.crypto /\ host.getRandomValues

\* C10: a thread's cell changes only in a step in which that thread's own
\* detection completes, and then no other thread's cell, position or
\* result changes; a thread gets past use_init's look-up only on a source
\* in its own cell, which only its own detection put there.
C10_CellPerThread ==
    /\ [][\A t \in Threads :
             cache'[t] # cache[t] =>
                /\ DetectionDone(t)
                /\ \A u \in Threads \ {t} :
                      /\ cache'[u] = cache[u] /\ pc'[u] = pc[u]
                      /\ result'[u] = result[u] /\ detects'[u] = detects[u]]_vars
    /\ [](\A t \in Threads :
             /\ pc[t] = "use" => cache[t] # None
             /\ cache[t] # None => detects[t] >= 1
             /\ detects[t] = 0 => first[t] = "none")

\* One thread is Ready and has returned Ok(()) while another, whose cell is
\* empty, is running its own detection.
C10_Witness ==
    \E t, u \in Threads :
        /\ cache[t] # None /\ result[t] = "Ok"
        /\ cache[u] = None /\ pc[u] = "init"

\* A step in which thread t enters getrandom_inner.
Enters(t) == pc[t] = "idle" /\ pc'[t] # "idle"

\* C11: a cell holds a source or nothing, never a failure; after a failed
\* detection it holds nothing; and a call goes to getrandom_init exactly
\* when it finds the cell empty, also on a thread whose detection failed
\* before, and that detection is then run.
C11_FailureNotCached ==
    /\ [](\A t \in Threads :
             /\ cache[t] \in RngSource \cup {None}
             /\ result[t] = UNAVAILABLE_ERROR => cache[t] = None
             /\ pc[t] = "init" => cache[t] = None)
    /\ [][\A t \in Threads :
             /\ Enters(t) => (pc'[t] = "init" <=> cache[t] = None)
             /\ (pc[t] = "init" /\ pc'[t] # "init") =>
                   (detects'[t] = detects[t] + 1 /\ probes'[t] # <<>>)]_vars

\* A thread whose first detection failed is in getrandom_init again on a
\* later call.
C11_Witness ==
    \E t \in Threads :
        first[t] = "fail" /\ detects[t] >= 1 /\ pc[t] = "init" /\ cache[t] = None

\* The host reads in p, as a set.
Read(p) == {p[i] : i \in DOMAIN p}

\* C12: a detection reads self first; it calls require("crypto") iff self
\* is undefined and then reads nothing more; it reads crypto iff self is
\* defined, and getRandomValues iff crypto is defined as well, after
\* crypto; a detection that fails never called require and stored no Node.
C12_ProbeOrder ==
    [][\A t \in Threads :
          DetectionDone(t) =>
             LET p == probes'[t]
             IN  /\ Len(p) >= 2 /\ p[1] = "self"
                 /\ "require" \in Read(p) <=> ~host.self
                 /\ "require" \in Read(p) => p = <<"self", "require">>
                 /\ "crypto" \in Read(p) <=> host.self
                 /\ "crypto" \in Read(p) => p[2] = "crypto"
                 /\ "getRandomValues" \in Read(p) <=> (host.self /\ host.crypto)
                 /\ "getRandomValues" \in Read(p) =>
                       (Len(p) = 3 /\ p[3] = "getRandomValues")
                 /\ Len(p) <= 3
                 /\ result'[t] = UNAVAILABLE_ERROR =>
                       ("require" \notin Read(p) /\ cache'[t] # "Node")]_vars

\* A detection failed after reading self and crypto only, on a host where
\* crypto is undefined.
C12_Witness ==
    \E t \in Threads :
        /\ probes[t] = <<"self", "crypto">> /\ result[t] = UNAVAILABLE_ERROR
        /\ ~hostChanged /\ ~host.crypto

\* C13: the step in which a call's detection fails ends the call with the
\* error and changes nothing else: no cell changes, the thread's cell is
\* still empty, and no primitive was or will be called in the call, so
\* no byte of dest is written.
C13_FailedDetectionFrame ==
    /\ [][\A t \in Threads :
             (DetectionDone(t) /\ Unusable(host)) =>
                /\ result'[t] = UNAVAILABLE_ERROR /\ pc'[t] = "idle"
                /\ cache' = cache /\ cache'[t] = None
                /\ log'[t] = <<>> /\ len'[t] = len[t]]_vars
    /\ [](\A t \in Threads :
             result[t] = UNAVAILABLE_ERROR =>
                /\ log[t] = <<>> /\ cache[t] = None /\ pc[t] = "idle"
                /\ \A b \in Probes(len[t]) : Writes(t, b) = 0)

\* A call on a buffer of more than a chunk failed in detection.
C13_Witness ==
    \E t \in Threads :
        /\ result[t] = UNAVAILABLE_ERROR /\ len[t] > ChunkSize
        /\ probes[t] # <<>>

\* C14: a primitive is called only by a thread that is past use_init's
\* detection, with a source in its own cell from a detection of its own,
\* and it is the primitive of that source; in a call that ran detection,
\* detection was over and its source stored before the first primitive.
C14_SourceBeforePrimitive ==
    /\ [][\A t \in Threads :
             log'[t] # log[t] /\ log'[t] # <<>> =>
                /\ pc[t] = "use" /\ cache[t] \in RngSource /\ detects[t] >= 1
                /\ cache'[t] = cache[t] /\ detects'[t] = detects[t]
                /\ log'[t][Len(log'[t])].prim =
                      (IF cache[t] = "Node" THEN "random_fill_sync"
                       ELSE "get_random_values")]_vars
    /\ [](\A t \in Threads :
             /\ log[t] # <<>> => cache[t] \in RngSource
             /\ pc[t] = "init" => log[t] = <<>>)

\* The first call of a thread ran detection and has made a primitive call.
C14_Witness ==
    \E t \in Threads :
        /\ detects[t] = 1 /\ probes[t] # <<>> /\ pc[t] = "use"
        /\ log[t] # <<>> /\ cache[t] = "Browser"

\* C15: a call with an empty dest goes through use_init like any other:
\* on an empty cell it runs detection, which stores the source or returns
\* the unavailable error; Ok(()) is returned only from the closure, after
\* no primitive call for Browser and one call on 0 bytes for Node.
C15_EmptyDest ==
    /\ [][\A t \in Threads :
             /\ (Enters(t) /\ len'[t] = 0 /\ cache[t] = None) => pc'[t] = "init"
             /\ (DetectionDone(t) /\ len[t] = 0) =>
                   IF Unusable(host)
                   THEN result'[t] = UNAVAILABLE_ERROR /\ cache'[t] = None
                   ELSE cache'[t] \in RngSource /\ pc'[t] = "use"
             /\ (result'[t] = "Ok" /\ result[t] # "Ok") =>
                   (pc[t] = "use" /\ cache[t] \in RngSource)]_vars
    /\ [](\A t \in Threads :
             (Returning(t) /\ len[t] = 0) =>
                /\ cache[t] = "Browser" => log[t] = <<>>
                /\ cache[t] = "Node" =>
                      /\ Len(log[t]) = 1
                      /\ log[t][1].off = 0 /\ log[t][1].len = 0
                      /\ log[t][1].prim = "random_fill_sync")

\* A thread's first call, on an empty dest, ran detection and called
\* random_fill_sync on the empty buffer.
C15_Witness ==
    \E t \in Threads :
        /\ Returning(t) /\ len[t] = 0 /\ cache[t] = "Node"
        /\ Len(log[t]) = 1 /\ probes[t] # <<>> /\ detects[t] = 1

\* C16: a call returns no error but the unavailable error, and that only
\* from a detection that ran and failed in the call; a call that is in the
\* closure, on a cached or a newly detected source, returns Ok(()) once
\* its primitive calls have returned.
C16_OnlyDetectionErrors ==
    /\ [](\A t \in Threads :
             /\ result[t] \in {"none", "Ok", "thrown", UNAVAILABLE_ERROR}
             /\ result[t] = UNAVAILABLE_ERROR =>
                   (probes[t] # <<>> /\ log[t] = <<>> /\ detects[t] >= 1))
    /\ [][\A t \in Threads :
             /\ (result'[t] = UNAVAILABLE_ERROR /\ result[t] # UNAVAILABLE_ERROR)
                   => (DetectionDone(t) /\ Unusable(host))
             /\ (pc[t] = "use" /\ pc'[t] = "idle") =>
                   IF log'[t] # <<>> /\ ~log'[t][Len(log'[t])].ok
                   THEN result'[t] = "thrown"
                   ELSE result'[t] = "Ok"]_vars

\* One thread returned Ok(()) from a call on a cached source while another
\* got the error from its detection.
C16_Witness ==
    \E t, u \in Threads :
        /\ result[t] = "Ok" /\ detects[t] = 1 /\ ncalls = MaxCalls
        /\ result[u] = UNAVAILABLE_ERROR /\ detects[u] = 1
====
